---------------------------- MODULE Spec2Model ----------------------------
(***************************************************************************)
(* State-machine model of the school administration backend (src/main.py). *)
(* The tables of the SQLite store are the state; every FastAPI handler     *)
(* that touches them is one action.  Columns that no handler ever reads    *)
(* in a condition and that no property below mentions (contact_number,     *)
(* dob, title, author, isbn, std, sec, class_teacher, issue_date,          *)
(* exam_name, marks) are left out of the rows.                             *)
(***************************************************************************)
EXTENDS Integers, FiniteSets, Sequences, Bags, TLC

(* ------------------------------ bounds -------------------------------- *)
MaxStudents == 2
MaxStaff == 1
MaxClassrooms == 1
MaxBooks == 1
MaxCopies == 1
MaxIssues == 2
MaxResults == 1
MaxFees == 1
MaxRequests == 2

(* --------------------------- value domains ---------------------------- *)
\* Optional[int] = None / Optional[date] = None
None == 0
Null == "null"
Names == {"n1", "n2"}
ClassNames == {"c1"}
Dates == {"d1", "d2"}
Amounts == {10, 20}
IssueIds == 1..MaxIssues
ResultIds == 1..MaxResults
FeeIds == 1..MaxFees
Copies == (0 - 1)..MaxCopies
Requests == 1..MaxRequests

VARIABLES student, staff, classroom, classroomstudent, book, issue,
          examresult, examfee, last, session

tables == <<student, staff, classroom, classroomstudent, book, issue,
            examresult, examfee>>
vars == <<student, staff, classroom, classroomstudent, book, issue,
          examresult, examfee, last, session>>

(* ------------------------- storage primitives ------------------------- *)
Empty == [k \in {} |-> None]

SetMax(S) == CHOOSE m \in S : \A x \in S : x <= m

\* INTEGER PRIMARY KEY without AUTOINCREMENT: the next rowid is max + 1
NextId(t) == IF DOMAIN t = {} THEN 1 ELSE SetMax(DOMAIN t) + 1

\* the ids a client may name for a table: every id handed out so far that is
\* not above the highest one stored, and the first one not handed out
Refs(t) == 1..NextId(t)

\* session.get(Model, id): the row, or nothing
Has(t, id) == id \in DOMAIN t

Insert(t, id, row) == [k \in DOMAIN t \cup {id} |-> IF k = id THEN row ELSE t[k]]

Delete(t, id) == [k \in DOMAIN t \ {id} |-> t[k]]

Response(op, req, status) == [op |-> op, req |-> req, status |-> status]

\* a request that never reaches the store's write path, or whose transaction
\* is rolled back
Abort(op, req, status) ==
    /\ last' = Response(op, req, status)
    /\ UNCHANGED tables

Idle == [pc |-> "idle"]

Init ==
    /\ student = Empty
    /\ staff = Empty
    /\ classroom = Empty
    /\ classroomstudent = EmptyBag
    /\ book = Empty
    /\ issue = Empty
    /\ examresult = Empty
    /\ examfee = Empty
    /\ last = Response("startup", None, 200)
    /\ session = [r \in Requests |-> Idle]

(* ------------------------------ LIBRARY ------------------------------- *)
\* POST /books/ body (BookBase)
BookBodies == [total_copies : Copies]

add_book(b) ==
    LET id == NextId(book)
        db_book == [total_copies |-> b.total_copies,
                    available_copies |-> b.total_copies]
    IN  /\ book' = Insert(book, id, db_book)
        /\ last' = Response("add_book", id, 200)
        /\ UNCHANGED <<student, staff, classroom, classroomstudent, issue,
                       examresult, examfee, session>>

get_book(book_id) ==
    /\ Abort("get_book", book_id, IF Has(book, book_id) THEN 200 ELSE 404)
    /\ UNCHANGED session

\* POST /issues/ body: the Issue table model itself, so the client may send
\* id and return_date as well
IssueBodies == [id : {None} \cup IssueIds, student_id : Refs(student),
                book_id : Refs(book), return_date : {Null} \cup Dates]

\* the availability check off by one
MutUnavailable(db_book) == db_book.available_copies < 0

\* line 291: not db_book or db_book.available_copies < 1
Unavailable(db_book) == db_book.available_copies < 1

\* the decrement left out
MutIssueDecrement(db_book) == db_book

\* line 293: db_book.available_copies -= 1
IssueDecrement(db_book) ==
    [db_book EXCEPT !.available_copies = db_book.available_copies - 1]

\* line 307: db_book.available_copies += 1
ReturnIncrement(db_book) ==
    [db_book EXCEPT !.available_copies = db_book.available_copies + 1]

IssueRow(b) == [student_id |-> b.student_id, book_id |-> b.book_id,
                return_date |-> b.return_date]

\* what the response log keeps of an issue request: the book asked for, the
\* id of the Issue row, and the available_copies the handler read (line 290)
IssueReq(b, id, was) == [book_id |-> b.book_id, id |-> id, was |-> was]

\* the flush of issue_book's commit against the current store: UPDATE book
\* with the value computed from the row the handler read, INSERT issue
IssueCommit(b, db_book, op) ==
    IF b.id # None /\ Has(issue, b.id)
    THEN \* UNIQUE constraint failed: issue.id, the transaction rolls back
         Abort(op, IssueReq(b, b.id, db_book.available_copies), 500)
    ELSE LET id == IF b.id = None THEN NextId(issue) ELSE b.id
         IN  /\ book' = [book EXCEPT ![b.book_id] = IssueDecrement(db_book)]
             /\ issue' = Insert(issue, id, IssueRow(b))
             /\ last' = Response(op, IssueReq(b, id, db_book.available_copies), 200)
             /\ UNCHANGED <<student, staff, classroom, classroomstudent,
                            examresult, examfee>>

\* the decrement committed before the availability check
MutIssueBook(b) ==
    /\ IF ~Has(book, b.book_id)
       THEN Abort("issue_book", IssueReq(b, None, None), 400)
       ELSE IF Unavailable(book[b.book_id])
       THEN /\ book' = [book EXCEPT ![b.book_id] = IssueDecrement(book[b.book_id])]
            /\ last' = Response("issue_book", IssueReq(b, None, None), 400)
            /\ UNCHANGED <<student, staff, classroom, classroomstudent, issue,
                           examresult, examfee>>
       ELSE IssueCommit(b, book[b.book_id], "issue_book")
    /\ UNCHANGED session

issue_book(b) ==
    /\ IF ~Has(book, b.book_id) \/ Unavailable(book[b.book_id])
       THEN Abort("issue_book", IssueReq(b, None, None), 400)
       ELSE IssueCommit(b, book[b.book_id], "issue_book")
    /\ UNCHANGED session

\* the check of return_date left out
MutInvalidReturn(issue_id) == ~Has(issue, issue_id)

\* line 303: not db_issue or db_issue.return_date
InvalidReturn(issue_id) ==
    ~Has(issue, issue_id) \/ issue[issue_id].return_date # Null

\* the flush of return_book's commit: UPDATE issue, UPDATE book
ReturnCommit(issue_id, db_issue, db_book, today, op) ==
    /\ issue' = [issue EXCEPT ![issue_id] = [db_issue EXCEPT !.return_date = today]]
    /\ book' = [book EXCEPT ![db_issue.book_id] = ReturnIncrement(db_book)]
    /\ last' = Response(op, issue_id, 200)
    /\ UNCHANGED <<student, staff, classroom, classroomstudent, examresult,
                   examfee>>

return_book(issue_id, today) ==
    /\ IF InvalidReturn(issue_id)
       THEN Abort("return_book", issue_id, 400)
       ELSE ReturnCommit(issue_id, issue[issue_id],
                         book[issue[issue_id].book_id], today, "return_book")
    /\ UNCHANGED session

(* ------------------------------ STUDENTS ------------------------------ *)
\* POST /students/ and PUT /students/{id} body (StudentBase)
StudentBodies == [name : Names]

create_student(b) ==
    /\ student' = Insert(student, NextId(student), [name |-> b.name])
    /\ last' = Response("create_student", NextId(student), 200)
    /\ UNCHANGED <<staff, classroom, classroomstudent, book, issue, examresult,
                   examfee, session>>

get_student(student_id) ==
    /\ Abort("get_student", student_id, IF Has(student, student_id) THEN 200 ELSE 404)
    /\ UNCHANGED session

update_student(student_id, b) ==
    /\ IF ~Has(student, student_id)
       THEN Abort("update_student", student_id, 404)
       ELSE /\ student' = [student EXCEPT ![student_id] = [name |-> b.name]]
            /\ last' = Response("update_student", student_id, 200)
            /\ UNCHANGED <<staff, classroom, classroomstudent, book, issue,
                           examresult, examfee>>
    /\ UNCHANGED session

\* rows of a one-to-many child table that belong to the student
\* (Student.issues, Student.results, Student.fees)
ChildrenOf(t, student_id) == {k \in DOMAIN t : t[k].student_id = student_id}

\* session.delete(db_student) with the relationships' default cascade: the
\* unit of work blanks the children's student_id, a NOT NULL column
BlanksNotNull(student_id) ==
    \/ ChildrenOf(issue, student_id) # {}
    \/ ChildrenOf(examresult, student_id) # {}
    \/ ChildrenOf(examfee, student_id) # {}

\* the rows of the link table (secondary) go with the deleted student
LinkRowsAfterDelete(student_id) ==
    [cs \in {x \in DOMAIN classroomstudent : x.student_id # student_id}
        |-> classroomstudent[cs]]

delete_student(student_id) ==
    /\ IF ~Has(student, student_id)
       THEN Abort("delete_student", student_id, 404)
       ELSE IF BlanksNotNull(student_id)
       THEN \* NOT NULL constraint failed, the transaction rolls back
            Abort("delete_student", student_id, 500)
       ELSE /\ student' = Delete(student, student_id)
            /\ classroomstudent' = LinkRowsAfterDelete(student_id)
            /\ last' = Response("delete_student", student_id, 204)
            /\ UNCHANGED <<staff, classroom, book, issue, examresult, examfee>>
    /\ UNCHANGED session

(* ------------------------------- STAFF -------------------------------- *)
\* POST /staff/ and PUT /staff/{id} body (StaffBase)
StaffBodies == [name : Names]

create_staff(b) ==
    /\ staff' = Insert(staff, NextId(staff), [name |-> b.name])
    /\ last' = Response("create_staff", NextId(staff), 200)
    /\ UNCHANGED <<student, classroom, classroomstudent, book, issue,
                   examresult, examfee, session>>

get_staff(staff_id) ==
    /\ Abort("get_staff", staff_id, IF Has(staff, staff_id) THEN 200 ELSE 404)
    /\ UNCHANGED session

update_staff(staff_id, b) ==
    /\ IF ~Has(staff, staff_id)
       THEN Abort("update_staff", staff_id, 404)
       ELSE /\ staff' = [staff EXCEPT ![staff_id] = [name |-> b.name]]
            /\ last' = Response("update_staff", staff_id, 200)
            /\ UNCHANGED <<student, classroom, classroomstudent, book, issue,
                           examresult, examfee>>
    /\ UNCHANGED session

delete_staff(staff_id) ==
    /\ IF ~Has(staff, staff_id)
       THEN Abort("delete_staff", staff_id, 404)
       ELSE /\ staff' = Delete(staff, staff_id)
            /\ last' = Response("delete_staff", staff_id, 204)
            /\ UNCHANGED <<student, classroom, classroomstudent, book, issue,
                           examresult, examfee>>
    /\ UNCHANGED session

(* ----------------------------- CLASSROOMS ----------------------------- *)
ClassroomBodies == [class_name : ClassNames]

create_classroom(b) ==
    /\ classroom' = Insert(classroom, NextId(classroom), [class_name |-> b.class_name])
    /\ last' = Response("create_classroom", NextId(classroom), 200)
    /\ UNCHANGED <<student, staff, classroomstudent, book, issue, examresult,
                   examfee, session>>

Link(class_id, student_id) == [classroom_id |-> class_id, student_id |-> student_id]

\* the membership test always negative
MutInClass(class_id, student_id) == FALSE

\* db_student in db_class.students
InClass(class_id, student_id) == BagIn(Link(class_id, student_id), classroomstudent)

\* db_class.students.append(db_student): INSERT INTO classroomstudent
AppendStudent(rows, class_id, student_id) ==
    rows (+) SetToBag({Link(class_id, student_id)})

\* db_class.students.remove(db_student): DELETE FROM classroomstudent
RemoveStudent(rows, class_id, student_id) ==
    rows (-) SetToBag({Link(class_id, student_id)})

\* lines 238 and 251: not db_class or not db_student
ClassOrStudentMissing(class_id, student_id) ==
    ~Has(classroom, class_id) \/ ~Has(student, student_id)

add_student_to_class(class_id, student_id) ==
    LET req == Link(class_id, student_id)
    IN  /\ IF ClassOrStudentMissing(class_id, student_id)
           THEN Abort("add_student_to_class", req, 404)
           ELSE IF InClass(class_id, student_id)
           THEN Abort("add_student_to_class", req, 400)
           ELSE IF BagIn(req, classroomstudent)
           THEN \* UNIQUE constraint failed: the composite primary key
                Abort("add_student_to_class", req, 500)
           ELSE /\ classroomstudent' = AppendStudent(classroomstudent, class_id, student_id)
                /\ last' = Response("add_student_to_class", req, 200)
                /\ UNCHANGED <<student, staff, classroom, book, issue,
                               examresult, examfee>>
        /\ UNCHANGED session

remove_student_from_class(class_id, student_id) ==
    LET req == Link(class_id, student_id)
    IN  /\ IF ClassOrStudentMissing(class_id, student_id)
           THEN Abort("remove_student_from_class", req, 404)
           ELSE IF ~InClass(class_id, student_id)
           THEN Abort("remove_student_from_class", req, 400)
           ELSE /\ classroomstudent' = RemoveStudent(classroomstudent, class_id, student_id)
                /\ last' = Response("remove_student_from_class", req, 200)
                /\ UNCHANGED <<student, staff, classroom, book, issue,
                               examresult, examfee>>
        /\ UNCHANGED session

get_class_students(class_id) ==
    /\ Abort("get_class_students", class_id,
             IF Has(classroom, class_id) THEN 200 ELSE 404)
    /\ UNCHANGED session

(* ---------------------------- EXAM RESULTS ---------------------------- *)
\* POST /results/ body: the ExamResult table model
ResultBodies == [id : {None} \cup ResultIds, student_id : Refs(student)]

add_result(b) ==
    /\ IF b.id # None /\ Has(examresult, b.id)
       THEN \* UNIQUE constraint failed: examresult.id
            Abort("add_result", b.id, 500)
       ELSE LET id == IF b.id = None THEN NextId(examresult) ELSE b.id
            IN  /\ examresult' = Insert(examresult, id, [student_id |-> b.student_id])
                /\ last' = Response("add_result", id, 200)
                /\ UNCHANGED <<student, staff, classroom, classroomstudent,
                               book, issue, examfee>>
    /\ UNCHANGED session

get_result(result_id) ==
    /\ Abort("get_result", result_id, IF Has(examresult, result_id) THEN 200 ELSE 404)
    /\ UNCHANGED session

delete_result(result_id) ==
    /\ IF ~Has(examresult, result_id)
       THEN Abort("delete_result", result_id, 404)
       ELSE /\ examresult' = Delete(examresult, result_id)
            /\ last' = Response("delete_result", result_id, 204)
            /\ UNCHANGED <<student, staff, classroom, classroomstudent, book,
                           issue, examfee>>
    /\ UNCHANGED session

(* ----------------------------- EXAM FEES ------------------------------ *)
FeeFields == {"id", "student_id", "amount", "due_date", "paid"}

\* a request body parsed into the ExamFee table model: the field values and
\* the set of fields the client sent (pydantic's fields_set); a field that
\* was not sent holds its default
FieldsSet(id, student_id, amount, due_date, paid_sent) ==
    {f \in FeeFields :
        \/ f = "id" /\ id # None
        \/ f = "student_id" /\ student_id # None
        \/ f = "amount" /\ amount # None
        \/ f = "due_date" /\ due_date # Null
        \/ f = "paid" /\ paid_sent}

FeeBodies ==
    {[id |-> id, student_id |-> sid, amount |-> amount, due_date |-> due,
      paid |-> paid_sent /\ paid,
      fields_set |-> FieldsSet(id, sid, amount, due, paid_sent)] :
        id \in {None} \cup FeeIds, sid \in {None} \cup Refs(student),
        amount \in {None} \cup Amounts, due \in {Null} \cup Dates,
        paid_sent \in BOOLEAN, paid \in BOOLEAN}

NoBody == [id |-> None, student_id |-> None, amount |-> None,
           due_date |-> Null, paid |-> FALSE, fields_set |-> {}]

\* update_fee merges whatever subset of the fields the parsed body carries
\* (PUT /fees/{id} with only paid is the partial update of the interface), so
\* every subset is tried there.
\* POST /fees/ sends at least the columns without a default
NewFeeBodies == {b \in FeeBodies : {"student_id", "amount", "due_date"} \subseteq b.fields_set}

FeeRow(b) == [student_id |-> b.student_id, amount |-> b.amount,
              due_date |-> b.due_date, paid |-> b.paid]

add_fee(b) ==
    /\ IF b.id # None /\ Has(examfee, b.id)
       THEN \* UNIQUE constraint failed: examfee.id
            Abort("add_fee", b.id, 500)
       ELSE LET id == IF b.id = None THEN NextId(examfee) ELSE b.id
            IN  /\ examfee' = Insert(examfee, id, FeeRow(b))
                /\ last' = Response("add_fee", id, 200)
                /\ UNCHANGED <<student, staff, classroom, classroomstudent,
                               book, issue, examresult>>
    /\ UNCHANGED session

get_fee(fee_id) ==
    /\ Abort("get_fee", fee_id, IF Has(examfee, fee_id) THEN 200 ELSE 404)
    /\ UNCHANGED session

\* exclude_unset left out: every field of the body overwrites
MutMerge(db_fee, b) == FeeRow(b)

\* lines 378-379: for key, val in fee.dict(exclude_unset=True).items():
\*                    setattr(db_fee, key, val)
Merge(db_fee, b) ==
    [student_id |-> IF "student_id" \in b.fields_set THEN b.student_id ELSE db_fee.student_id,
     amount |-> IF "amount" \in b.fields_set THEN b.amount ELSE db_fee.amount,
     due_date |-> IF "due_date" \in b.fields_set THEN b.due_date ELSE db_fee.due_date,
     paid |-> IF "paid" \in b.fields_set THEN b.paid ELSE db_fee.paid]

\* "id" is a key of the body like any other: setattr(db_fee, "id", val)
MergedId(fee_id, b) == IF "id" \in b.fields_set THEN b.id ELSE fee_id

update_fee(fee_id, b) ==
    LET req == [fee_id |-> fee_id, body |-> b]
        \* a request that fails is logged without its body
        bad == [fee_id |-> fee_id, body |-> NoBody]
        id == MergedId(fee_id, b)
    IN  /\ IF ~Has(examfee, fee_id)
           THEN Abort("update_fee", bad, 404)
           ELSE IF id # fee_id /\ Has(examfee, id)
           THEN \* UPDATE examfee SET id = ...: UNIQUE constraint failed
                Abort("update_fee", bad, 500)
           ELSE /\ examfee' = Insert(Delete(examfee, fee_id), id,
                                     Merge(examfee[fee_id], b))
                /\ last' = Response("update_fee", req, 200)
                /\ UNCHANGED <<student, staff, classroom, classroomstudent,
                               book, issue, examresult>>
        /\ UNCHANGED session

\* the bodies tried against fee_id: every one when the fee is stored; when it
\* is not, the answer is 404 whatever the body, and one body stands for all
PutBodies(fee_id) == IF Has(examfee, fee_id) THEN FeeBodies ELSE {NoBody}

delete_fee(fee_id) ==
    /\ IF ~Has(examfee, fee_id)
       THEN Abort("delete_fee", fee_id, 404)
       ELSE /\ examfee' = Delete(examfee, fee_id)
            /\ last' = Response("delete_fee", fee_id, 204)
            /\ UNCHANGED <<student, staff, classroom, classroomstudent, book,
                           issue, examresult>>
    /\ UNCHANGED session

(* ---------------- concurrent issue and return requests ---------------- *)
\* FastAPI runs each of these handlers on a worker thread with a Session of
\* its own (get_session); session[r] is what request r holds between its
\* statements.  A SELECT opens no transaction on the pysqlite connection, so
\* the rows a handler has read may be stale when its commit flushes.

\* lines 290-292
issue_book_get(r, b) ==
    /\ session[r].pc = "idle"
    /\ IF ~Has(book, b.book_id) \/ Unavailable(book[b.book_id])
       THEN Abort("issue_book", IssueReq(b, None, None), 400) /\ UNCHANGED session
       ELSE /\ session' = [session EXCEPT ![r] =
                  [pc |-> "issue_commit", issue |-> b, db_book |-> book[b.book_id]]]
            /\ UNCHANGED <<tables, last>>

\* lines 293-298
issue_book_commit(r) ==
    /\ session[r].pc = "issue_commit"
    /\ IssueCommit(session[r].issue, session[r].db_book, "issue_book")
    /\ session' = [session EXCEPT ![r] = Idle]

\* lines 302-305
return_book_get(r, issue_id) ==
    /\ session[r].pc = "idle"
    /\ IF InvalidReturn(issue_id)
       THEN Abort("return_book", issue_id, 400) /\ UNCHANGED session
       ELSE /\ session' = [session EXCEPT ![r] =
                  [pc |-> "return_get_book", issue_id |-> issue_id,
                   db_issue |-> issue[issue_id]]]
            /\ UNCHANGED <<tables, last>>

\* line 306
return_book_get_book(r) ==
    /\ session[r].pc = "return_get_book"
    /\ session' = [session EXCEPT ![r] =
          [pc |-> "return_commit", issue_id |-> session[r].issue_id,
           db_issue |-> session[r].db_issue,
           db_book |-> book[session[r].db_issue.book_id]]]
    /\ UNCHANGED <<tables, last>>

\* lines 307-311
return_book_commit(r, today) ==
    /\ session[r].pc = "return_commit"
    /\ ReturnCommit(session[r].issue_id, session[r].db_issue, session[r].db_book,
                    today, "return_book")
    /\ session' = [session EXCEPT ![r] = Idle]

\* the body the interface documents: student_id and book_id
PlainIssueBodies == {b \in IssueBodies : b.id = None /\ b.return_date = Null}

(* ------------------------- the bounds of the model -------------------- *)
\* no table holds an id above its bound
InBounds ==
    /\ NextId(student) <= MaxStudents + 1
    /\ NextId(staff) <= MaxStaff + 1
    /\ NextId(classroom) <= MaxClassrooms + 1
    /\ NextId(book) <= MaxBooks + 1
    /\ NextId(issue) <= MaxIssues + 1
    /\ NextId(examresult) <= MaxResults + 1
    /\ NextId(examfee) <= MaxFees + 1

NextConcurrent ==
    \/ \E b \in BookBodies : add_book(b) /\ InBounds'
    \/ \E r \in Requests, b \in PlainIssueBodies : issue_book_get(r, b)
    \/ \E r \in Requests : issue_book_commit(r) /\ InBounds'
    \/ \E r \in Requests, id \in Refs(issue) : return_book_get(r, id)
    \/ \E r \in Requests : return_book_get_book(r)
    \/ \E r \in Requests, today \in Dates : return_book_commit(r, today)

SpecConcurrent == Init /\ [][NextConcurrent]_vars

(* --------------------- the roster, one request at a time -------------- *)
NextRoster ==
    \/ \E b \in StudentBodies : create_student(b) /\ InBounds'
    \/ \E b \in ClassroomBodies : create_classroom(b) /\ InBounds'
    \/ \E c \in Refs(classroom), s \in Refs(student) : add_student_to_class(c, s)
    \/ \E c \in Refs(classroom), s \in Refs(student) :
          remove_student_from_class(c, s)
    \/ \E c \in Refs(classroom) : get_class_students(c)
    \/ \E s \in Refs(student) : delete_student(s)

SpecRoster == Init /\ [][NextRoster]_vars

(* ---------------------- the fees, one request at a time --------------- *)
NextFees ==
    \/ \E b \in NewFeeBodies : add_fee(b) /\ InBounds'
    \/ \E id \in Refs(examfee) : \E b \in PutBodies(id) : update_fee(id, b)
    \/ \E id \in Refs(examfee) : get_fee(id)
    \/ \E id \in Refs(examfee) : delete_fee(id)

SpecFees == Init /\ [][NextFees]_vars

(* --------------------- the library, one request at a time ------------- *)
NextLibrary ==
    \/ \E b \in BookBodies : add_book(b) /\ InBounds'
    \/ \E id \in Refs(book) : get_book(id)
    \/ \E b \in IssueBodies : issue_book(b) /\ InBounds'
    \/ \E id \in Refs(issue), today \in Dates : return_book(id, today)

SpecLibrary == Init /\ [][NextLibrary]_vars

(* ------------------ every handler, one request at a time -------------- *)
MaxRows == 2

\* the rows of the entity tables; the link rows are bounded by them
Rows ==
    Cardinality(DOMAIN student) + Cardinality(DOMAIN staff)
    + Cardinality(DOMAIN classroom) + Cardinality(DOMAIN book)
    + Cardinality(DOMAIN issue) + Cardinality(DOMAIN examresult)
    + Cardinality(DOMAIN examfee)

FewRows == InBounds /\ Rows <= MaxRows

\* the handlers that only list rows (list_students, list_staff,
\* list_classrooms, list_books, student_issues, list_results, get_results,
\* get_fees, list_fees) read the store, never fail and write nothing
Next ==
    \/ \E b \in StudentBodies : create_student(b) /\ FewRows'
    \/ \E s \in Refs(student) : get_student(s)
    \/ \E s \in Refs(student), b \in StudentBodies : update_student(s, b)
    \/ \E s \in Refs(student) : delete_student(s)
    \/ \E b \in StaffBodies : create_staff(b) /\ FewRows'
    \/ \E s \in Refs(staff) : get_staff(s)
    \/ \E s \in Refs(staff), b \in StaffBodies : update_staff(s, b)
    \/ \E s \in Refs(staff) : delete_staff(s)
    \/ \E b \in ClassroomBodies : create_classroom(b) /\ FewRows'
    \/ \E c \in Refs(classroom), s \in Refs(student) : add_student_to_class(c, s)
    \/ \E c \in Refs(classroom), s \in Refs(student) :
          remove_student_from_class(c, s)
    \/ \E c \in Refs(classroom) : get_class_students(c)
    \/ \E b \in BookBodies : add_book(b) /\ FewRows'
    \/ \E id \in Refs(book) : get_book(id)
    \/ \E b \in IssueBodies : issue_book(b) /\ FewRows'
    \/ \E id \in Refs(issue), today \in Dates : return_book(id, today)
    \/ \E b \in ResultBodies : add_result(b) /\ FewRows'
    \/ \E id \in Refs(examresult) : get_result(id)
    \/ \E id \in Refs(examresult) : delete_result(id)
    \/ \E b \in NewFeeBodies : add_fee(b) /\ FewRows'
    \/ \E id \in Refs(examfee) : \E b \in PutBodies(id) : update_fee(id, b)
    \/ \E id \in Refs(examfee) : get_fee(id)
    \/ \E id \in Refs(examfee) : delete_fee(id)

Spec == Init /\ [][Next]_vars

(* ------------------------------ properties ---------------------------- *)
\* the Issue rows of a book whose return_date is null
OpenIssues(book_id) ==
    {i \in DOMAIN issue : issue[i].book_id = book_id /\ issue[i].return_date = Null}

\* C1: for every book added with total_copies >= 0, after any sequence of
\* add_book, issue_book and return_book requests run one at a time,
\* 0 <= available_copies <= total_copies.
C1_AvailableWithinTotal ==
    \A id \in DOMAIN book :
        book[id].total_copies >= 0 =>
            /\ 0 <= book[id].available_copies
            /\ book[id].available_copies <= book[id].total_copies

\* the last copy of a book has just been issued
C1_Witness ==
    /\ last.op = "issue_book"
    /\ last.status = 200
    /\ book[last.req.book_id].total_copies >= 1
    /\ book[last.req.book_id].available_copies = 0

\* C2: in every state reachable by add_book, issue_book and return_book, each
\* book's available_copies equals total_copies minus the number of its Issue
\* rows whose return_date is null, whatever body issue_book accepted.
C2_AvailableCountsOpenIssues ==
    \A id \in DOMAIN book :
        book[id].available_copies =
            book[id].total_copies - Cardinality(OpenIssues(id))

\* C3: under any interleaving of the statements of concurrent issue_book and
\* return_book requests, a book's outstanding issues never exceed its
\* total_copies and its available_copies stays within 0..total_copies.
C3_NoOverIssue ==
    \A id \in DOMAIN book :
        book[id].total_copies >= 0 =>
            /\ Cardinality(OpenIssues(id)) <= book[id].total_copies
            /\ 0 <= book[id].available_copies
            /\ book[id].available_copies <= book[id].total_copies

\* C4: a request answered 400 or 404 leaves every table as it was; issue_book
\* on a book with available_copies = 0 is answered 400, leaves
\* available_copies unchanged and creates no Issue row.
C4_RejectedWritesNothing ==
    [][/\ last'.status \in {400, 404} => UNCHANGED tables
       /\ (/\ last'.op = "issue_book"
           /\ Has(book, last'.req.book_id)
           /\ book[last'.req.book_id].available_copies = 0)
          => /\ last'.status = 400
             /\ book' = book
             /\ issue' = issue]_vars

\* issue_book has just been rejected on a book whose only copy is lent out
C4_Witness ==
    /\ last.op = "issue_book"
    /\ last.status = 400
    /\ Has(book, last.req.book_id)
    /\ book[last.req.book_id].total_copies = 1
    /\ book[last.req.book_id].available_copies = 0
    /\ OpenIssues(last.req.book_id) # {}

\* C5: in every reachable state every stored foreign key (Issue.student_id,
\* Issue.book_id, ExamResult.student_id, ExamFee.student_id, the link rows'
\* classroom_id and student_id) references an existing row.
C5_ForeignKeysExist ==
    /\ \A i \in DOMAIN issue :
          Has(student, issue[i].student_id) /\ Has(book, issue[i].book_id)
    /\ \A r \in DOMAIN examresult : Has(student, examresult[r].student_id)
    /\ \A f \in DOMAIN examfee : Has(student, examfee[f].student_id)
    /\ \A cs \in DOMAIN classroomstudent :
          Has(classroom, cs.classroom_id) /\ Has(student, cs.student_id)

\* C6: return_book succeeds exactly on a stored issue whose return_date is
\* null and sets it; on any other issue id it is answered 400 and writes
\* nothing; a return_date that is set is never null again (so an issue is
\* returned at most once).
C6_ReturnOnce ==
    [][/\ \A i \in DOMAIN issue :
             /\ i \in DOMAIN issue'
             /\ issue[i].return_date # Null => issue'[i].return_date # Null
       /\ last'.op = "return_book" =>
             /\ (last'.status = 200) <=>
                    (Has(issue, last'.req) /\ issue[last'.req].return_date = Null)
             /\ last'.status = 200 => issue'[last'.req].return_date # Null
             /\ last'.status # 200 => last'.status = 400 /\ UNCHANGED tables]_vars

\* a return has just been rejected on an issue that was returned before
C6_Witness ==
    /\ last.op = "return_book"
    /\ last.status = 400
    /\ DOMAIN issue = {last.req}
    /\ issue[last.req].return_date # Null
    /\ book[issue[last.req].book_id].available_copies =
           book[issue[last.req].book_id].total_copies

C8_RosterMembership ==
    [][/\ \A cs \in DOMAIN classroomstudent' : classroomstudent'[cs] = 1
       /\ (/\ last'.op = "add_student_to_class"
           /\ Has(classroom, last'.req.classroom_id)
           /\ Has(student, last'.req.student_id))
          => IF last'.req \in DOMAIN classroomstudent
             THEN last'.status = 400 /\ UNCHANGED tables
             ELSE /\ last'.status = 200
                  /\ classroomstudent' =
                        [cs \in DOMAIN classroomstudent \cup {last'.req} |-> 1]
       /\ (/\ last'.op = "remove_student_from_class"
           /\ Has(classroom, last'.req.classroom_id)
           /\ Has(student, last'.req.student_id))
          => IF last'.req \in DOMAIN classroomstudent
             THEN /\ last'.status = 200
                  /\ classroomstudent' =
                        [cs \in DOMAIN classroomstudent \ {last'.req} |-> 1]
             ELSE last'.status = 400 /\ UNCHANGED tables]_vars

\* a member has just been added a second time and the request was rejected
C8_Witness ==
    /\ last.op = "add_student_to_class"
    /\ last.status = 400
    /\ last.req \in DOMAIN classroomstudent

\* student ids below the highest stored one that are no longer stored: each
\* was handed out by create_student and removed by delete_student
DeletedStudents == {s \in 1..(NextId(student) - 1) : ~Has(student, s)}

NoReferenceToDeletedStudent ==
    /\ \A cs \in DOMAIN classroomstudent : cs.student_id \notin DeletedStudents
    /\ \A i \in DOMAIN issue : issue[i].student_id \notin DeletedStudents
    /\ \A r \in DOMAIN examresult : examresult[r].student_id \notin DeletedStudents
    /\ \A f \in DOMAIN examfee : examfee[f].student_id \notin DeletedStudents

\* C9: delete_student on a student without issues, results or fees removes
\* the student and the student's roster rows; on a student that has any it
\* fails and leaves every table unchanged; hence no roster row, Issue,
\* ExamResult or ExamFee ever references a deleted student.
C9_DeleteStudentKeepsReferences ==
    [][/\ (last'.op = "delete_student" /\ Has(student, last'.req)) =>
             IF BlanksNotNull(last'.req)
             THEN last'.status = 500 /\ UNCHANGED tables
             ELSE /\ last'.status = 204
                  /\ ~Has(student', last'.req)
                  /\ \A cs \in DOMAIN classroomstudent' :
                        cs.student_id # last'.req
       /\ NoReferenceToDeletedStudent']_vars

=============================================================================
